---- MODULE Spec2Model ----
(***************************************************************************)
(* Reconciliation of a declared desired state against the LiteLLM          *)
(* management API, as done by the four Ansible modules litellm_team,       *)
(* litellm_virtual_key, litellm_endpoint and litellm_model.                *)
(*                                                                         *)
(* Values.  A Python dict is a function from its keys to values, a list a  *)
(* sequence, a string or number a string.  None is "None" for a scalar,    *)
(* NoneList for a list and NoneDict for a dict, so that every field keeps  *)
(* one TLA+ type.  d.get(k) of a missing key is the None of k's type.      *)
(***************************************************************************)
EXTENDS Integers, Sequences, FiniteSets, TLC

VARIABLES
    kind,        \* which module runs: "team", "key", "endpoint", "model"
    args,        \* the task's arguments as the user wrote them
    params,      \* module.params: the arguments after argument_spec's defaults
    check_mode,  \* module.check_mode
    remote,      \* the resources the remote API holds, in listing order
    remote0,     \* remote as it was when the current invocation started
    pc,          \* position in main(): "start", "resolved", "acted", "exited"
    existing,    \* existing_team / existing_key / existing_endpoint / existing_model
    result,      \* what exit_json / fail_json reports
    sent,        \* the requests sent during the current invocation, in order
    run,         \* number of the current invocation
    prev         \* summary of the previous invocation (NoPrev before the first)

vars == <<kind, args, params, check_mode, remote, remote0, pc, existing, result, sent, run, prev>>

----------------------------------------------------------------------------
(* Bounds *)

\* longest listing the remote holds before the first invocation
MaxRemote == 2
\* most optional comparable fields a task declares
MaxDeclared == 1
\* invocations of the same task in a row
MaxRuns == 2

----------------------------------------------------------------------------
(* Python values *)

None == "None"
NoneList == <<"None">>
NoneDict == [None |-> "None"]
EmptyDict == [k \in {} |-> "None"]
\* an argument the task does not give at all (argument_spec then applies its default)
Unset == [Unset |-> "Unset"]

Put(d, k, v) == [f \in DOMAIN d \cup {k} |-> IF f = k THEN v ELSE d[f]]

\* truth value of a str, list and dict
TruthyStr(s) == s # None /\ s # ""
TruthyList(l) == l # NoneList /\ l # <<>>
TruthyDict(d) == d # NoneDict /\ DOMAIN d # {}

\* dict.get(k) for a str-, list- and dict-valued key
GetStr(d, k) == IF k \in DOMAIN d THEN d[k] ELSE None
GetDict(d, k) == IF k \in DOMAIN d THEN d[k] ELSE NoneDict
GetListOr(d, k, default) == IF k \in DOMAIN d THEN d[k] ELSE default

\* set(list)
ToSet(l) == {l[i] : i \in DOMAIN l}

----------------------------------------------------------------------------
(* HTTP *)

\* requests raised RequestException: there is no response
TransportError == 0

Is2xx(st) == st \in {200, 201}

\* what a method of a manager returns: a value, or the module has failed
Ok(v) == [failed |-> FALSE, msg |-> "", val |-> v]
Fail(m) == [failed |-> TRUE, msg |-> m, val |-> NoneDict]

\* a request as the invocation saw it: what was sent, the status it was answered
\* with, and for a listing the JSON type of the body and the keys of a dict body
Request(op, data, resp) ==
    [op |-> op, data |-> data, status |-> resp.status,
     json |-> IF op = "list" THEN resp.body.json ELSE "dict",
     keys |-> IF op = "list" THEN DOMAIN resp.body.dict ELSE {}]
WriteOps == {"create", "update", "delete"}
Writes(s) == {i \in DOMAIN s : s[i].op \in WriteOps}

\* bodies of a 200 listing response
BareList(items) == [json |-> "list", items |-> items, dict |-> EmptyDict]
Wrapped(key, items) == [json |-> "dict", items |-> <<>>, dict |-> Put(EmptyDict, key, items)]
OtherDict == [json |-> "dict", items |-> <<>>, dict |-> Put(EmptyDict, "detail", <<>>)]
\* a number, a boolean or null
Scalar == [json |-> "scalar", items |-> <<>>, dict |-> EmptyDict]
\* a JSON string (one in which 'data' does not occur)
Text == [json |-> "string", items |-> <<>>, dict |-> EmptyDict]

\* index of the first entry of a list that satisfies Test, 0 if none
FirstIndex(list, Test(_)) ==
    IF \E i \in DOMAIN list : Test(list[i])
    THEN CHOOSE i \in DOMAIN list : Test(list[i]) /\ \A j \in 1..(i - 1) : ~Test(list[j])
    ELSE 0

\* identifiers the remote API hands out, in the order it hands them out
IdSeq(k) ==
    IF k = "team" THEN <<"t1", "t2", "t3", "t4", "t5", "t6", "t7", "t8">>
    ELSE <<"k1", "k2", "k3", "k4", "k5", "k6", "k7", "k8">>

----------------------------------------------------------------------------
(* The remote API: what it stores and what it answers.  A served lookup    *)
(* answers from the store; a served write is applied to the store and      *)
(* answered with the stored resource.  Any request may instead meet a      *)
(* transport error or a server error.                                      *)

\* the key under which a stored team or key resource carries its identifier
IdField(k, r) ==
    IF k = "team" THEN "team_id" ELSE IF "key" \in DOMAIN r THEN "key" ELSE "token"

\* whether a stored team or key resource has this identifier
HasId(k, r, id) ==
    \E f \in (IF k = "team" THEN {"team_id"} ELSE {"token", "key"}) \cap DOMAIN r :
        r[f] = id

UsedIds(k, rem) == {GetStr(rem[i], IdField(k, rem[i])) : i \in DOMAIN rem}

FreshId(k, rem) ==
    LET ids == IdSeq(k)
        i == CHOOSE n \in DOMAIN ids :
                 /\ ids[n] \notin UsedIds(k, rem)
                 /\ \A m \in 1..(n - 1) : ids[m] \in UsedIds(k, rem)
    IN ids[i]

\* the store after a create: the fields received, under a new identifier
\* (a model or endpoint is stored under its model_name alone)
StoreCreate(k, rem, data) ==
    IF k \in {"team", "key"}
    THEN Append(rem, Put(data, IdField(k, EmptyDict), FreshId(k, rem)))
    ELSE Append(rem, data)

\* a resource with the fields of data (all but the identifying one) written over it
Merged(r, data, idKey) ==
    [f \in DOMAIN r \cup (DOMAIN data \ {idKey}) |->
        IF f \in DOMAIN data \ {idKey} THEN data[f] ELSE r[f]]

\* the store after an update of the resource the body names
StoreUpdate(k, rem, data, idKey) ==
    [i \in DOMAIN rem |->
        IF HasId(k, rem[i], data[idKey]) THEN Merged(rem[i], data, idKey) ELSE rem[i]]

\* the store after a delete of the resource with this identifier
StoreDelete(k, rem, id) == SelectSeq(rem, LAMBDA r : ~HasId(k, r, id))

\* the first stored resource with this identifier, NoneDict if there is none
Stored(k, rem, id) ==
    LET i == FirstIndex(rem, LAMBDA r : HasId(k, r, id))
    IN IF i = 0 THEN NoneDict ELSE rem[i]

Response(st, body) == [status |-> st, body |-> body]

\* answers to GET /team/{team_id} and GET /key/info?key={key_id}
InfoResponses(k, rem, id) ==
    { Response(TransportError, NoneDict), Response(500, NoneDict),
      IF Stored(k, rem, id) = NoneDict
      THEN Response(404, NoneDict)
      ELSE Response(200, Stored(k, rem, id)) }

\* the key under which a wrapped listing carries the list
Container(k) == IF k = "team" THEN "teams" ELSE IF k = "key" THEN "keys" ELSE "data"

\* answers to GET /team/list, GET /key/list and GET /model/info
ListResponses(k, rem) ==
    { Response(TransportError, Scalar), Response(500, Scalar),
      Response(200, BareList(rem)), Response(200, Wrapped(Container(k), rem)),
      Response(200, OtherDict), Response(200, Scalar), Response(200, Text) }

\* status codes a write may be answered with (TransportError: not answered)
WriteStatuses == {TransportError, 200, 201, 500}

----------------------------------------------------------------------------
(* litellm_team.py *)

M1 == [env |-> "prod"]

\* argument_spec: the defaults it applies
TeamParams(a) ==
    [a EXCEPT !.metadata = IF a.metadata = Unset THEN EmptyDict ELSE a.metadata]

\* required_if of the argument_spec
TeamRequiredIf(a) ==
    /\ a.state = "present" => a.name # None
    /\ a.state = "absent" => a.team_id # None

get_team(resp) ==
    IF resp.status = TransportError THEN Fail("Errore nella richiesta HTTP")
    ELSE IF resp.status = 200 THEN Ok(resp.body)
    ELSE IF resp.status = 404 THEN Ok(NoneDict)
    ELSE Fail("Errore nel recupero del team")

get_team_by_name(resp, name) ==
    IF resp.status = TransportError THEN Fail("Errore nella richiesta HTTP")
    ELSE IF resp.status = 200 THEN
        LET data == resp.body
            teams == IF data.json = "list" THEN data.items
                     ELSE GetListOr(data.dict, "teams", <<>>)
            i == FirstIndex(teams, LAMBDA team :
                     GetStr(team, "team_alias") = name \/ GetStr(team, "team_name") = name)
        IN IF data.json \notin {"list", "dict"} THEN Fail("AttributeError")
           ELSE IF i = 0 THEN Ok(NoneDict) ELSE Ok(teams[i])
    ELSE Fail("Errore nella ricerca del team")

\* the body create_team posts to /team/new
create_team_data(name, metadata, max_budget, models) ==
    LET d0 == [team_alias |-> name]
        d1 == IF TruthyDict(metadata) THEN Put(d0, "metadata", metadata) ELSE d0
        d2 == IF max_budget # None THEN Put(d1, "max_budget", max_budget) ELSE d1
    IN IF TruthyList(models) THEN Put(d2, "models", models) ELSE d2

create_team(resp) ==
    IF resp.status = TransportError THEN Fail("Errore nella richiesta HTTP")
    ELSE IF resp.status \in {200, 201} THEN Ok(resp.body)
    ELSE Fail("Errore nella creazione del team")

\* the body update_team posts to /team/update
update_team_data(team_id, name, metadata, max_budget, models) ==
    LET d0 == [team_id |-> team_id]
        d1 == IF TruthyStr(name) THEN Put(d0, "team_alias", name) ELSE d0
        d2 == IF metadata # NoneDict THEN Put(d1, "metadata", metadata) ELSE d1
        d3 == IF max_budget # None THEN Put(d2, "max_budget", max_budget) ELSE d2
    IN IF models # NoneList THEN Put(d3, "models", models) ELSE d3

update_team(resp) ==
    IF resp.status = TransportError THEN Fail("Errore nella richiesta HTTP")
    ELSE IF resp.status = 200 THEN Ok(resp.body)
    ELSE Fail("Errore nell'aggiornamento del team")

\* the body delete_team posts to /team/delete
delete_team_data(team_id) == [team_ids |-> <<team_id>>]

delete_team(resp) ==
    IF resp.status = TransportError THEN Fail("Errore nella richiesta HTTP")
    ELSE IF resp.status = 200 THEN Ok(NoneDict)
    ELSE Fail("Errore nell'eliminazione del team")

\* a variant that compares the models lists as lists
team_needs_update_Ordered(current_team, name, metadata, max_budget, models) ==
    \/ TruthyStr(name) /\ GetStr(current_team, "team_alias") # name
    \/ metadata # NoneDict /\ GetDict(current_team, "metadata") # metadata
    \/ max_budget # None /\ GetStr(current_team, "max_budget") # max_budget
    \/ models # NoneList /\ GetListOr(current_team, "models", <<>>) # models

team_needs_update(current_team, name, metadata, max_budget, models) ==
    \/ TruthyStr(name) /\ GetStr(current_team, "team_alias") # name
    \/ metadata # NoneDict /\ GetDict(current_team, "metadata") # metadata
    \/ max_budget # None /\ GetStr(current_team, "max_budget") # max_budget
    \/ models # NoneList /\ ToSet(GetListOr(current_team, "models", <<>>)) # ToSet(models)

----------------------------------------------------------------------------
(* litellm_virtual_key.py *)

\* argument_spec: the defaults it applies
KeyParams(a) ==
    [a EXCEPT !.metadata = IF a.metadata = Unset THEN EmptyDict ELSE a.metadata]

\* required_if of the argument_spec
KeyRequiredIf(a) == a.state = "absent" => a.key_id # None

\* a variant for which 404 is an error like any other status
get_key_Strict(resp) ==
    IF resp.status = TransportError THEN Fail("Errore nella richiesta HTTP")
    ELSE IF resp.status = 200 THEN Ok(resp.body)
    ELSE Fail("Errore nel recupero della key")

get_key(resp) ==
    IF resp.status = TransportError THEN Fail("Errore nella richiesta HTTP")
    ELSE IF resp.status = 200 THEN Ok(resp.body)
    ELSE IF resp.status = 404 THEN Ok(NoneDict)
    ELSE Fail("Errore nel recupero della key")

\* a variant that returns the last matching entry of the listing
get_key_by_alias_Last(resp, alias) ==
    IF resp.status = TransportError THEN Fail("Errore nella richiesta HTTP")
    ELSE IF resp.status = 200 THEN
        LET data == resp.body
            keys == IF data.json = "list" THEN data.items
                    ELSE GetListOr(data.dict, "keys", <<>>)
            hits == {i \in DOMAIN keys :
                        GetStr(keys[i], "key_alias") = alias
                        \/ GetStr(keys[i], "key_name") = alias}
        IN IF data.json \notin {"list", "dict"}
           THEN Fail("Risposta API non valida per /key/list")
           ELSE IF hits = {} THEN Ok(NoneDict)
           ELSE Ok(keys[CHOOSE i \in hits : \A j \in hits : j <= i])
    ELSE Fail("Errore nella ricerca della key")

get_key_by_alias(resp, alias) ==
    IF resp.status = TransportError THEN Fail("Errore nella richiesta HTTP")
    ELSE IF resp.status = 200 THEN
        LET data == resp.body
            keys == IF data.json = "list" THEN data.items
                    ELSE GetListOr(data.dict, "keys", <<>>)
            i == FirstIndex(keys, LAMBDA key :
                     GetStr(key, "key_alias") = alias \/ GetStr(key, "key_name") = alias)
        IN IF data.json \notin {"list", "dict"}
           THEN Fail("Risposta API non valida per /key/list")
           ELSE IF i = 0 THEN Ok(NoneDict) ELSE Ok(keys[i])
    ELSE Fail("Errore nella ricerca della key")

\* d with key k set to v when the condition holds
PutIf(cond, d, k, v) == IF cond THEN Put(d, k, v) ELSE d

\* the body create_key posts to /key/generate
create_key_data(p) ==
    LET d1 == PutIf(TruthyStr(p.key_alias), EmptyDict, "key_alias", p.key_alias)
        d2 == PutIf(TruthyStr(p.team_id), d1, "team_id", p.team_id)
        d3 == PutIf(TruthyList(p.models), d2, "models", p.models)
        d4 == PutIf(p.max_budget # None, d3, "max_budget", p.max_budget)
        d5 == PutIf(TruthyStr(p.budget_duration), d4, "budget_duration", p.budget_duration)
        d6 == PutIf(TruthyDict(p.metadata), d5, "metadata", p.metadata)
        d7 == PutIf(TruthyStr(p.expires), d6, "expires", p.expires)
        d8 == PutIf(p.max_parallel_requests # None, d7, "max_parallel_requests",
                    p.max_parallel_requests)
        d9 == PutIf(p.tpm_limit # None, d8, "tpm_limit", p.tpm_limit)
    IN PutIf(p.rpm_limit # None, d9, "rpm_limit", p.rpm_limit)

\* a variant that drops the body of the answer
create_key_NoBody(resp) ==
    IF resp.status = TransportError THEN Fail("Errore nella richiesta HTTP")
    ELSE IF resp.status \in {200, 201} THEN Ok(EmptyDict)
    ELSE Fail("Errore nella creazione della key")

create_key(resp) ==
    IF resp.status = TransportError THEN Fail("Errore nella richiesta HTTP")
    ELSE IF resp.status \in {200, 201} THEN Ok(resp.body)
    ELSE Fail("Errore nella creazione della key")

\* the body update_key posts to /key/update
update_key_data(key_id, p) ==
    LET d0 == [key |-> key_id]
        d1 == PutIf(TruthyStr(p.key_alias), d0, "key_alias", p.key_alias)
        d2 == PutIf(TruthyStr(p.team_id), d1, "team_id", p.team_id)
        d3 == PutIf(p.models # NoneList, d2, "models", p.models)
        d4 == PutIf(p.max_budget # None, d3, "max_budget", p.max_budget)
        d5 == PutIf(TruthyStr(p.budget_duration), d4, "budget_duration", p.budget_duration)
        d6 == PutIf(p.metadata # NoneDict, d5, "metadata", p.metadata)
        d7 == PutIf(TruthyStr(p.expires), d6, "expires", p.expires)
        d8 == PutIf(p.max_parallel_requests # None, d7, "max_parallel_requests",
                    p.max_parallel_requests)
        d9 == PutIf(p.tpm_limit # None, d8, "tpm_limit", p.tpm_limit)
    IN PutIf(p.rpm_limit # None, d9, "rpm_limit", p.rpm_limit)

update_key(resp) ==
    IF resp.status = TransportError THEN Fail("Errore nella richiesta HTTP")
    ELSE IF resp.status = 200 THEN Ok(resp.body)
    ELSE Fail("Errore nell'aggiornamento della key")

\* the body delete_key posts to /key/delete
delete_key_data(key_id) == [keys |-> <<key_id>>]

delete_key(resp) ==
    IF resp.status = TransportError THEN Fail("Errore nella richiesta HTTP")
    ELSE IF resp.status = 200 THEN Ok(NoneDict)
    ELSE Fail("Errore nell'eliminazione della key")

key_needs_update(current_key, p) ==
    \/ TruthyStr(p.key_alias) /\ GetStr(current_key, "key_alias") # p.key_alias
    \/ TruthyStr(p.team_id) /\ GetStr(current_key, "team_id") # p.team_id
    \/ p.models # NoneList
       /\ ToSet(GetListOr(current_key, "models", <<>>)) # ToSet(p.models)
    \/ p.max_budget # None /\ GetStr(current_key, "max_budget") # p.max_budget
    \/ TruthyStr(p.budget_duration)
       /\ GetStr(current_key, "budget_duration") # p.budget_duration
    \/ p.metadata # NoneDict /\ GetDict(current_key, "metadata") # p.metadata
    \/ TruthyStr(p.expires) /\ GetStr(current_key, "expires") # p.expires
    \/ p.max_parallel_requests # None
       /\ GetStr(current_key, "max_parallel_requests") # p.max_parallel_requests
    \/ p.tpm_limit # None /\ GetStr(current_key, "tpm_limit") # p.tpm_limit
    \/ p.rpm_limit # None /\ GetStr(current_key, "rpm_limit") # p.rpm_limit

\* existing_key.get('token') or existing_key.get('key')
\* a variant that reads the identifier from 'key' alone
current_key_id_KeyOnly(existing_key) == GetStr(existing_key, "key")

current_key_id(existing_key) ==
    IF TruthyStr(GetStr(existing_key, "token")) THEN GetStr(existing_key, "token")
    ELSE GetStr(existing_key, "key")

----------------------------------------------------------------------------
(* litellm_endpoint.py.  A string the code formats or splits is a sequence *)
(* of its pieces: "openai/endpoint-a" is <<"openai", "/", "endpoint-", "a">>. *)

\* argument_spec: the defaults it applies
EndpointParams(a) ==
    [a EXCEPT !.metadata = IF a.metadata = Unset THEN EmptyDict ELSE a.metadata]

\* _extract_provider
extract_provider(litellm_params) ==
    LET model == GetListOr(litellm_params, "model", <<>>)
        i == FirstIndex(model, LAMBDA piece : piece = "/")
    IN IF i # 0 THEN SubSeq(model, 1, i - 1) ELSE <<"unknown">>

\* the endpoint_info get_endpoints builds of a listed model
endpoint_info(model) ==
    [endpoint_name |-> IF "model_name" \in DOMAIN model THEN model.model_name ELSE "unknown",
     api_base |-> model.litellm_params.api_base,
     provider |-> extract_provider(model.litellm_params),
     metadata |-> IF "model_info" \in DOMAIN model THEN model.model_info ELSE EmptyDict]

IsEndpoint(model) ==
    "litellm_params" \in DOMAIN model /\ "api_base" \in DOMAIN model.litellm_params

\* get_endpoints: the value of its 'endpoints' key.  'data' in data is False for a
\* list and for a string without 'data' in it, and raises TypeError for a number,
\* a boolean or null, which main() reports as an unexpected error.
get_endpoints(resp) ==
    IF resp.status = TransportError THEN Fail("Errore nella richiesta HTTP")
    ELSE IF resp.status = 200 THEN
        LET data == resp.body
            listed == IF data.json = "dict" THEN GetListOr(data.dict, "data", <<>>) ELSE <<>>
            models == SelectSeq(listed, IsEndpoint)
        IN IF data.json = "scalar" THEN Fail("Errore imprevisto")
           ELSE Ok([i \in DOMAIN models |-> endpoint_info(models[i])])
    ELSE Fail("Errore nel recupero degli endpoint")

get_endpoint(resp, endpoint_name) ==
    LET r == get_endpoints(resp)
        i == FirstIndex(r.val, LAMBDA endpoint : endpoint.endpoint_name = endpoint_name)
    IN IF r.failed THEN r
       ELSE IF i = 0 THEN Ok(NoneDict) ELSE Ok(r.val[i])

\* model_info in create_endpoint: metadata itself when it is not empty, with the
\* marker added to it; a new dict with the marker otherwise
create_endpoint_model_info(metadata) ==
    Put(IF TruthyDict(metadata) THEN metadata ELSE EmptyDict,
        "endpoint_type", "managed_endpoint")

\* the caller's metadata dict after create_endpoint: model_info is that same dict
\* when metadata is not empty
create_endpoint_metadata(metadata) ==
    IF TruthyDict(metadata) THEN create_endpoint_model_info(metadata) ELSE metadata

\* the body create_endpoint posts to /model/new
create_endpoint_data(endpoint_name, api_base, provider, api_key, api_version, metadata) ==
    LET l0 == [model |-> <<provider, "/", "endpoint-", endpoint_name>>,
               api_base |-> api_base]
        l1 == PutIf(TruthyStr(api_key), l0, "api_key", api_key)
        litellm_params == PutIf(TruthyStr(api_version), l1, "api_version", api_version)
    IN [model_name |-> endpoint_name, litellm_params |-> litellm_params,
        model_info |-> create_endpoint_model_info(metadata)]

create_endpoint(resp) ==
    IF resp.status = TransportError THEN Fail("Errore nella richiesta HTTP")
    ELSE IF resp.status \in {200, 201} THEN Ok(resp.body)
    ELSE Fail("Errore nella creazione dell'endpoint")

\* delete_endpoint: fail_json with the advice, never a request
delete_endpoint ==
    Fail("Eliminazione endpoint non supportata direttamente dall'API. Rimuovi l'endpoint dal file di configurazione config.yaml")

----------------------------------------------------------------------------
(* litellm_model.py *)

\* argument_spec: the defaults it applies
ModelParams(a) ==
    [a EXCEPT !.model_info = IF a.model_info = Unset THEN EmptyDict ELSE a.model_info]

get_models(resp) ==
    IF resp.status = TransportError THEN Fail("Errore nella richiesta HTTP")
    ELSE IF resp.status = 200 THEN Ok(resp.body)
    ELSE Fail("Errore nel recupero dei modelli")

\* get_model.  'data' in models is False for a list and for a string without
\* 'data' in it, and raises TypeError for a number, a boolean or null, which
\* main() reports as an unexpected error.
get_model(resp, model_name) ==
    LET r == get_models(resp)
        models == r.val
        listed == IF models.json = "dict" THEN GetListOr(models.dict, "data", <<>>) ELSE <<>>
        i == FirstIndex(listed, LAMBDA model : GetStr(model, "model_name") = model_name)
    IN IF r.failed THEN r
       ELSE IF models.json = "scalar" THEN Fail("Errore imprevisto")
       ELSE IF i = 0 THEN Ok(NoneDict) ELSE Ok(listed[i])

\* the body create_model posts to /model/new
create_model_data(model_name, litellm_params, model_info) ==
    PutIf(TruthyDict(model_info),
          [model_name |-> model_name, litellm_params |-> litellm_params],
          "model_info", model_info)

create_model(resp) ==
    IF resp.status = TransportError THEN Fail("Errore nella richiesta HTTP")
    ELSE IF resp.status \in {200, 201} THEN Ok(resp.body)
    ELSE Fail("Errore nella creazione del modello")

\* delete_model: fail_json with the advice, never a request
delete_model ==
    Fail("Eliminazione modelli non supportata direttamente dall'API. Rimuovi il modello dal file di configurazione config.yaml")

----------------------------------------------------------------------------
(* main(): the steps shared by the modules *)

\* result = {'changed': False, <resource>: {}}; changed = False, message = ""
InitResult == [changed |-> FALSE, failed |-> FALSE, message |-> "", resource |-> EmptyDict]

\* module.exit_json(...)
Exit(changed, message, resource) ==
    /\ pc' = "exited"
    /\ result' = [changed |-> changed, failed |-> FALSE, message |-> message,
                  resource |-> resource]

\* module.fail_json(msg=...): the module ends here, failed
Abort(msg) ==
    /\ pc' = "exited"
    /\ result' = [changed |-> FALSE, failed |-> TRUE, message |-> msg,
                  resource |-> EmptyDict]

\* a variant that sends the lookup a second time when the first has failed
Resolved_Retry(req, r) ==
    /\ sent' = Append(sent, req)
    /\ IF r.failed
       THEN IF sent = <<>> THEN pc' = "start" /\ UNCHANGED <<existing, result>>
            ELSE Abort(r.msg) /\ UNCHANGED existing
       ELSE pc' = "resolved" /\ existing' = r.val /\ UNCHANGED result

\* a lookup was sent and the manager's method has returned, or has failed the module
Resolved(req, r) ==
    /\ sent' = Append(sent, req)
    /\ IF r.failed
       THEN Abort(r.msg) /\ UNCHANGED existing
       ELSE pc' = "resolved" /\ existing' = r.val /\ UNCHANGED result

\* no identity is given: existing stays None and nothing is sent
NotLookedUp ==
    /\ pc' = "resolved"
    /\ existing' = NoneDict
    /\ UNCHANGED <<result, sent>>

\* the key of a write's body that names the resource, and the name in it
IdKey(k, op) ==
    IF k = "team" THEN (IF op = "delete" THEN "team_ids" ELSE "team_id")
    ELSE (IF op = "delete" THEN "keys" ELSE "key")
NamedId(k, op, data) == IF op = "delete" THEN data[IdKey(k, op)][1] ELSE data[IdKey(k, op)]

\* the store after a served write
Applied(k, op, rem, data) ==
    IF op = "create" THEN StoreCreate(k, rem, data)
    ELSE IF op = "update" THEN StoreUpdate(k, rem, data, IdKey(k, op))
    ELSE StoreDelete(k, rem, NamedId(k, op, data))

\* the body of the answer to a served write
Answer(k, op, rem2, data) ==
    IF op = "create" THEN rem2[Len(rem2)]
    ELSE IF op = "update" THEN Stored(k, rem2, NamedId(k, op, data))
    ELSE EmptyDict

\* a create, update or delete is posted and answered; Then(r) is what the module
\* does with what the manager's method returns
SendWrite(k, op, data, Handle(_), Then(_)) ==
    \E st \in WriteStatuses :
        LET rem2 == IF Is2xx(st) THEN Applied(k, op, remote, data) ELSE remote
            resp == Response(st, IF Is2xx(st) THEN Answer(k, op, rem2, data) ELSE NoneDict)
        IN /\ sent' = Append(sent, Request(op, data, resp))
           /\ remote' = rem2
           /\ Then(Handle(resp))

\* a variant that reports the change whatever the method returned
ReportChange_Always(r, message, withResource) == Exit(TRUE, message, EmptyDict)

\* the module fails, or reports the change with the resource the method returned
ReportChange(r, message, withResource) ==
    IF r.failed THEN Abort(r.msg)
    ELSE Exit(TRUE, message, IF withResource THEN r.val ELSE EmptyDict)

\* a variant of check mode that plans a write without reporting a change
Planned_Unchanged(message) ==
    /\ Exit(FALSE, message, EmptyDict)
    /\ UNCHANGED <<remote, sent>>

\* check mode: the change is reported and nothing is sent
Planned(message) ==
    /\ Exit(TRUE, message, EmptyDict)
    /\ UNCHANGED <<remote, sent>>

----------------------------------------------------------------------------
(* litellm_team.py: main() *)

TeamResolve ==
    /\ kind = "team" /\ pc = "start"
    /\ IF TruthyStr(params.team_id)
       THEN \E resp \in InfoResponses("team", remote, params.team_id) :
               Resolved(Request("get", [team_id |-> params.team_id], resp), get_team(resp))
       ELSE IF TruthyStr(params.name)
       THEN \E resp \in ListResponses("team", remote) :
               Resolved(Request("list", EmptyDict, resp), get_team_by_name(resp, params.name))
       ELSE NotLookedUp
    /\ UNCHANGED <<kind, args, params, check_mode, remote, remote0, run, prev>>

\* what main() decides once existing_team is known
TeamDecision(p, existing_team) ==
    IF p.state = "present"
    THEN IF TruthyDict(existing_team)
         THEN IF team_needs_update(existing_team, p.name, p.metadata, p.max_budget, p.models)
              THEN "update" ELSE "noop"
         ELSE "create"
    ELSE IF TruthyDict(existing_team) THEN "delete" ELSE "noop"

\* the team_id main() passes to update_team and delete_team
current_team_id(existing_team) == GetStr(existing_team, "team_id")

TeamAct ==
    /\ kind = "team" /\ pc = "resolved"
    /\ LET p == params
           decision == TeamDecision(p, existing)
       IN CASE decision = "update" ->
                 IF check_mode THEN Planned("Team aggiornato con successo")
                 ELSE SendWrite("team", "update",
                          update_team_data(current_team_id(existing), p.name, p.metadata,
                                           p.max_budget, p.models),
                          update_team,
                          LAMBDA r : ReportChange(r, "Team aggiornato con successo", TRUE))
            [] decision = "create" ->
                 IF check_mode THEN Planned("Team creato con successo")
                 ELSE SendWrite("team", "create",
                          create_team_data(p.name, p.metadata, p.max_budget, p.models),
                          create_team,
                          LAMBDA r : ReportChange(r, "Team creato con successo", TRUE))
            [] decision = "delete" ->
                 IF check_mode THEN Planned("Team eliminato con successo")
                 ELSE SendWrite("team", "delete",
                          delete_team_data(current_team_id(existing)), delete_team,
                          LAMBDA r : ReportChange(r, "Team eliminato con successo", FALSE))
            [] OTHER ->
                 /\ IF p.state = "present"
                    THEN Exit(FALSE, "Team gia esistente con le configurazioni richieste",
                              existing)
                    ELSE Exit(FALSE, "Team non trovato, nessuna azione necessaria",
                              EmptyDict)
                 /\ UNCHANGED <<remote, sent>>
    /\ UNCHANGED <<kind, args, params, check_mode, remote0, existing, run, prev>>

----------------------------------------------------------------------------
(* litellm_virtual_key.py: main() *)

KeyResolve ==
    /\ kind = "key" /\ pc = "start"
    /\ IF TruthyStr(params.key_id)
       THEN \E resp \in InfoResponses("key", remote, params.key_id) :
               Resolved(Request("get", [key |-> params.key_id], resp), get_key(resp))
       ELSE IF TruthyStr(params.key_alias)
       THEN \E resp \in ListResponses("key", remote) :
               Resolved(Request("list", EmptyDict, resp),
                        get_key_by_alias(resp, params.key_alias))
       ELSE NotLookedUp
    /\ UNCHANGED <<kind, args, params, check_mode, remote, remote0, run, prev>>

\* what main() decides once existing_key is known
\* a variant that leaves an existing key alone when the task wants it absent
KeyDecision_KeepOnAbsent(p, existing_key) ==
    IF p.state = "present"
    THEN IF TruthyDict(existing_key)
         THEN IF key_needs_update(existing_key, p) THEN "update" ELSE "noop"
         ELSE "create"
    ELSE "noop"

KeyDecision(p, existing_key) ==
    IF p.state = "present"
    THEN IF TruthyDict(existing_key)
         THEN IF key_needs_update(existing_key, p) THEN "update" ELSE "noop"
         ELSE "create"
    ELSE IF TruthyDict(existing_key) THEN "delete" ELSE "noop"

KeyAct ==
    /\ kind = "key" /\ pc = "resolved"
    /\ LET p == params
           decision == KeyDecision(p, existing)
       IN CASE decision = "update" ->
                 IF check_mode THEN Planned("Virtual key aggiornata con successo")
                 ELSE SendWrite("key", "update",
                          update_key_data(current_key_id(existing), p), update_key,
                          LAMBDA r : ReportChange(r, "Virtual key aggiornata con successo", TRUE))
            [] decision = "create" ->
                 IF check_mode THEN Planned("Virtual key creata con successo")
                 ELSE SendWrite("key", "create", create_key_data(p), create_key,
                          LAMBDA r : ReportChange(r, "Virtual key creata con successo", TRUE))
            [] decision = "delete" ->
                 IF check_mode THEN Planned("Virtual key eliminata con successo")
                 ELSE SendWrite("key", "delete",
                          delete_key_data(current_key_id(existing)), delete_key,
                          LAMBDA r : ReportChange(r, "Virtual key eliminata con successo", FALSE))
            [] OTHER ->
                 /\ IF p.state = "present"
                    THEN Exit(FALSE, "Virtual key gia esistente con le configurazioni richieste",
                              existing)
                    ELSE Exit(FALSE, "Virtual key non trovata, nessuna azione necessaria",
                              EmptyDict)
                 /\ UNCHANGED <<remote, sent>>
    /\ UNCHANGED <<kind, args, params, check_mode, remote0, existing, run, prev>>

----------------------------------------------------------------------------
(* litellm_endpoint.py and litellm_model.py: main() *)

\* message = ...: nothing is reported yet
Noted(message) ==
    /\ pc' = "acted"
    /\ result' = [result EXCEPT !.message = message]

\* a variant that leaves changed as it is after the create
Changed_Unset(r, message) ==
    IF r.failed THEN Abort(r.msg)
    ELSE /\ pc' = "acted"
         /\ result' = [result EXCEPT !.message = message]

\* changed = True; message = ...
Changed(r, message) ==
    IF r.failed THEN Abort(r.msg)
    ELSE /\ pc' = "acted"
         /\ result' = [result EXCEPT !.changed = TRUE, !.message = message]

EndpointResolve ==
    /\ kind = "endpoint" /\ pc = "start"
    /\ IF params.state = "present"
          /\ (~TruthyStr(params.api_base) \/ ~TruthyStr(params.provider))
       THEN /\ Abort("api_base e provider sono richiesti quando state e' 'present'")
            /\ UNCHANGED <<existing, sent>>
       ELSE \E resp \in ListResponses("endpoint", remote) :
               Resolved(Request("list", EmptyDict, resp),
                        get_endpoint(resp, params.endpoint_name))
    /\ UNCHANGED <<kind, args, params, check_mode, remote, remote0, run, prev>>

EndpointAct ==
    /\ kind = "endpoint" /\ pc = "resolved"
    /\ LET p == params
       IN IF p.state = "present"
          THEN IF TruthyDict(existing)
               THEN /\ Noted("Endpoint gia esistente")
                    /\ UNCHANGED <<params, remote, sent>>
               ELSE /\ params' = [params EXCEPT !.metadata = create_endpoint_metadata(@)]
                    /\ SendWrite("endpoint", "create",
                           create_endpoint_data(p.endpoint_name, p.api_base, p.provider,
                               p.endpoint_api_key, p.api_version, p.metadata),
                           create_endpoint,
                           LAMBDA r : Changed(r, "Endpoint creato con successo"))
          ELSE /\ IF TruthyDict(existing)
                  THEN Abort(delete_endpoint.msg)
                  ELSE Noted("Endpoint non trovato")
               /\ UNCHANGED <<params, remote, sent>>
    /\ UNCHANGED <<kind, args, check_mode, remote0, existing, run, prev>>

\* exit_json(changed, message, endpoint=get_endpoint(...) if present else None)
EndpointReport ==
    /\ kind = "endpoint" /\ pc = "acted"
    /\ IF params.state = "present"
       THEN \E resp \in ListResponses("endpoint", remote) :
               LET r == get_endpoint(resp, params.endpoint_name)
               IN /\ sent' = Append(sent, Request("list", EmptyDict, resp))
                  /\ IF r.failed THEN Abort(r.msg)
                     ELSE Exit(result.changed, result.message, r.val)
       ELSE /\ Exit(result.changed, result.message, NoneDict)
            /\ UNCHANGED sent
    /\ UNCHANGED <<kind, args, params, check_mode, remote, remote0, existing, run, prev>>

ModelResolve ==
    /\ kind = "model" /\ pc = "start"
    /\ IF params.state = "present" /\ ~TruthyDict(params.litellm_params)
       THEN /\ Abort("litellm_params e' richiesto quando state e' 'present'")
            /\ UNCHANGED <<existing, sent>>
       ELSE \E resp \in ListResponses("model", remote) :
               Resolved(Request("list", EmptyDict, resp), get_model(resp, params.model_name))
    /\ UNCHANGED <<kind, args, params, check_mode, remote, remote0, run, prev>>

ModelAct ==
    /\ kind = "model" /\ pc = "resolved"
    /\ LET p == params
       IN IF p.state = "present"
          THEN IF TruthyDict(existing)
               THEN /\ Noted("Modello gia esistente")
                    /\ UNCHANGED <<remote, sent>>
               ELSE SendWrite("model", "create",
                        create_model_data(p.model_name, p.litellm_params, p.model_info),
                        create_model,
                        LAMBDA r : Changed(r, "Modello creato con successo"))
          ELSE /\ IF TruthyDict(existing)
                  THEN Abort(delete_model.msg)
                  ELSE Noted("Modello non trovato")
               /\ UNCHANGED <<remote, sent>>
    /\ UNCHANGED <<kind, args, params, check_mode, remote0, existing, run, prev>>

\* exit_json(changed, message, model=get_model(...) if present else None)
ModelReport ==
    /\ kind = "model" /\ pc = "acted"
    /\ IF params.state = "present"
       THEN \E resp \in ListResponses("model", remote) :
               LET r == get_model(resp, params.model_name)
               IN /\ sent' = Append(sent, Request("list", EmptyDict, resp))
                  /\ IF r.failed THEN Abort(r.msg)
                     ELSE Exit(result.changed, result.message, r.val)
       ELSE /\ Exit(result.changed, result.message, NoneDict)
            /\ UNCHANGED sent
    /\ UNCHANGED <<kind, args, params, check_mode, remote, remote0, existing, run, prev>>

----------------------------------------------------------------------------
(* The tasks and the remote states the model starts from *)

Kinds == {"team", "key", "endpoint", "model"}

\* whether the task gives an optional argument
IsDeclared(a, f) ==
    IF f \in {"metadata", "model_info"} THEN a[f] # Unset
    ELSE IF f = "models" THEN a[f] # NoneList
    ELSE a[f] # None

\* a task declares at most MaxDeclared optional fields, and none to remove a resource
FewDeclared(a, fields) ==
    Cardinality({f \in fields : IsDeclared(a, f)})
        <= (IF a.state = "present" THEN MaxDeclared ELSE 0)

TeamArgs ==
    { a \in [ team_id : {None, "t1"}, name : {None, "a", "b"},
              metadata : {Unset, M1}, max_budget : {None, "1000"},
              models : {NoneList, <<>>, <<"g2", "g1">>},
              state : {"present", "absent"} ] :
        /\ TeamRequiredIf(a)
        /\ a.state = "absent" => a.name # "b"
        /\ FewDeclared(a, {"metadata", "max_budget", "models"}) }

KeyArgs ==
    { a \in [ key_id : {None, "k1"}, key_alias : {None, "a", "b"},
              team_id : {None, "t1"}, models : {NoneList, <<>>, <<"g2", "g1">>},
              max_budget : {None, "1000"}, budget_duration : {None, "30d"},
              metadata : {Unset, M1}, expires : {None, "2030"},
              max_parallel_requests : {None, "10"}, tpm_limit : {None, "100"},
              rpm_limit : {None, "10"}, state : {"present", "absent"} ] :
        /\ KeyRequiredIf(a)
        /\ a.state = "absent" => a.key_alias # "b"
        /\ FewDeclared(a, {"team_id", "models", "max_budget", "budget_duration",
                           "metadata", "expires", "max_parallel_requests",
                           "tpm_limit", "rpm_limit"}) }

EndpointArgs ==
    { a \in [ endpoint_name : {"a", "b"}, api_base : {None, "u2"},
              provider : {None, "openai"}, endpoint_api_key : {None, "sk"},
              api_version : {None, "v1"}, metadata : {Unset, M1},
              state : {"present", "absent"} ] :
        /\ a.state = "absent" => a.api_base = None /\ a.provider = None
        /\ FewDeclared(a, {"endpoint_api_key", "api_version", "metadata"}) }

GPT4 == [model |-> <<"gpt-4">>]

ModelArgs ==
    { a \in [ model_name : {"a", "b"}, litellm_params : {NoneDict, EmptyDict, GPT4},
              model_info : {Unset, M1}, state : {"present", "absent"} ] :
        /\ a.state = "absent" => a.litellm_params = NoneDict
        /\ FewDeclared(a, {"model_info"}) }

ArgsOf(k) ==
    CASE k = "team" -> TeamArgs [] k = "key" -> KeyArgs
      [] k = "endpoint" -> EndpointArgs [] OTHER -> ModelArgs

\* module.params of a task
ParamsOf(k, a) ==
    CASE k = "team" -> TeamParams(a) [] k = "key" -> KeyParams(a)
      [] k = "endpoint" -> EndpointParams(a) [] OTHER -> ModelParams(a)

\* teams as the remote holds them, without their team_id
TeamPool ==
    { [team_alias |-> "a", metadata |-> EmptyDict, max_budget |-> "1000",
       models |-> <<"g1", "g2">>],
      [team_alias |-> "a", metadata |-> M1, max_budget |-> "1000",
       models |-> <<"g1", "g2">>],
      [team_name |-> "b"] }

\* keys as the remote holds them, without their identifier (the last carries it
\* under 'key', the others under 'token')
KeyPool ==
    { [key_alias |-> "a", team_id |-> "t1", models |-> <<"g1", "g2">>,
       max_budget |-> "1000", budget_duration |-> "30d", metadata |-> EmptyDict,
       expires |-> "2030", max_parallel_requests |-> "10", tpm_limit |-> "100",
       rpm_limit |-> "10"],
      [key_alias |-> "a", team_id |-> "t1", models |-> <<"g1", "g2">>,
       max_budget |-> "1000", budget_duration |-> "30d", metadata |-> M1,
       expires |-> "2030", max_parallel_requests |-> "10", tpm_limit |-> "100",
       rpm_limit |-> "10"],
      [key_name |-> "b", key |-> ""] }

\* models as the remote holds them: a managed endpoint, a model with an api_base
\* of its own, a model without one
ModelPool ==
    { [model_name |-> "a",
       litellm_params |-> [model |-> <<"openai", "/", "endpoint-", "a">>, api_base |-> "u1"],
       model_info |-> [endpoint_type |-> "managed_endpoint"]],
      [model_name |-> "a", litellm_params |-> [model |-> <<"gpt-4">>, api_base |-> "u2"]],
      [model_name |-> "b", litellm_params |-> GPT4] }

PoolOf(k) ==
    CASE k = "team" -> TeamPool [] k = "key" -> KeyPool [] OTHER -> ModelPool

\* a pool's resource under the identifier the remote gave it
Identified(k, r, id) ==
    IF k \in {"team", "key"} THEN Put(r, IdField(k, r), id) ELSE r

\* the listings of at most MaxRemote resources of a pool, identified in listing order
Listings(k) ==
    UNION { { [i \in 1..n |-> Identified(k, f[i], IdSeq(k)[i])] : f \in [1..n -> PoolOf(k)] } :
            n \in 0..MaxRemote }

\* the requests of an invocation without their answers
Unanswered(s) == [i \in DOMAIN s |-> [op |-> s[i].op, data |-> s[i].data]]

NoPrev == [none |-> TRUE, check_mode |-> FALSE, result |-> InitResult,
           remote0 |-> <<>>, remote |-> <<>>, existing |-> NoneDict, sent |-> <<>>]

Init ==
    /\ kind \in Kinds
    /\ args \in ArgsOf(kind)
    /\ params = ParamsOf(kind, args)
    /\ check_mode \in BOOLEAN
    /\ remote \in Listings(kind)
    /\ remote0 = remote
    /\ pc = "start"
    /\ existing = NoneDict
    /\ result = InitResult
    /\ sent = <<>>
    /\ run = 1
    /\ prev = NoPrev

\* The task that has ended without failing is run again, now for real (a check
\* that is then applied, a live run that is repeated), against the remote as the
\* invocation left it or put back as the invocation found it.  (A failed task
\* ends the play; running it again is a first invocation.)
Rerun ==
    /\ pc = "exited" /\ ~result.failed /\ run < MaxRuns
    /\ \E restore \in BOOLEAN : remote' = IF restore THEN remote0 ELSE remote
    /\ remote0' = remote'
    /\ prev' = [none |-> FALSE, check_mode |-> check_mode, result |-> result,
                remote0 |-> remote0, remote |-> remote, existing |-> existing,
                sent |-> Unanswered(sent)]
    /\ check_mode' = FALSE
    /\ params' = ParamsOf(kind, args)
    /\ run' = run + 1
    /\ pc' = "start"
    /\ existing' = NoneDict
    /\ result' = InitResult
    /\ sent' = <<>>
    /\ UNCHANGED <<kind, args>>

Next ==
    \/ TeamResolve
    \/ TeamAct
    \/ KeyResolve
    \/ KeyAct
    \/ EndpointResolve
    \/ EndpointAct
    \/ EndpointReport
    \/ ModelResolve
    \/ ModelAct
    \/ ModelReport
    \/ Rerun

Spec == Init /\ [][Next]_vars

----------------------------------------------------------------------------
(* Vocabulary of the properties *)

Exited == pc = "exited"
Succeeded == pc = "exited" /\ ~result.failed
Found == TruthyDict(existing)
OpsSent(s, op) == {i \in DOMAIN s : s[i].op = op}

\* needs-update as the module computes it for the resource the lookup returned
NeedsUpdate ==
    IF kind = "team"
    THEN team_needs_update(existing, params.name, params.metadata, params.max_budget,
                           params.models)
    ELSE key_needs_update(existing, params)

\* the decision table of the reconciliation engine
Table(intent, found, needsUpdate) ==
    IF intent = "present"
    THEN IF ~found THEN "create" ELSE IF needsUpdate THEN "update" ELSE "noop"
    ELSE IF found THEN "delete" ELSE "noop"

\* the comparable fields of a team and of a key, by argument name, and the name
\* each has on the wire
ComparableFields(k) ==
    IF k = "team" THEN {"name", "metadata", "max_budget", "models"}
    ELSE {"key_alias", "team_id", "models", "max_budget", "budget_duration", "metadata",
          "expires", "max_parallel_requests", "tpm_limit", "rpm_limit"}
WireName(k, f) == IF k = "team" /\ f = "name" THEN "team_alias" ELSE f

\* the comparable fields the task declares
DeclaredFields == {f \in ComparableFields(kind) : IsDeclared(args, f)}

\* a declared field whose value is not the existing resource's (lists as sets)
Differs(f) ==
    IF f = "models" THEN ToSet(GetListOr(existing, "models", <<>>)) # ToSet(args.models)
    ELSE IF f = "metadata" THEN GetDict(existing, "metadata") # args.metadata
    ELSE GetStr(existing, WireName(kind, f)) # args[f]

----------------------------------------------------------------------------
(* C1 - C10 *)

\* C1: for team and key, a live invocation whose remote calls succeed does what
\* the decision table says of (intent, existing, needs-update): NoOp reports
\* changed=false and sends no write; Create, Update and Delete report
\* changed=true and send that one write.
C1_DecisionTable ==
    (kind \in {"team", "key"} /\ Succeeded /\ ~check_mode) =>
        LET d == Table(params.state, Found, Found /\ NeedsUpdate)
        IN IF d = "noop"
           THEN ~result.changed /\ Writes(sent) = {}
           ELSE /\ result.changed
                /\ Cardinality(Writes(sent)) = 1
                /\ \A i \in Writes(sent) : sent[i].op = d

C1_Witness ==
    /\ kind = "key" /\ Succeeded /\ ~check_mode
    /\ Table(params.state, Found, Found /\ NeedsUpdate) = "update"
    /\ result.changed

\* C2: in check mode no create, update or delete is ever sent, whatever the kind.
C2_NoWriteInCheckMode == check_mode => Writes(sent) = {}

\* C3: a check-mode invocation and the live invocation of the same task that
\* starts from the same remote state and gets the same answer to its lookup
\* report the same changed flag, when neither fails.
C3_SameChanged ==
    (Succeeded /\ ~prev.none /\ prev.check_mode /\ ~check_mode
        /\ prev.remote0 = remote0 /\ prev.existing = existing) =>
        result.changed = prev.result.changed

C3_Witness ==
    /\ kind = "team" /\ Succeeded /\ ~prev.none /\ prev.check_mode /\ ~check_mode
    /\ prev.remote0 = remote0 /\ prev.existing = existing
    /\ result.changed /\ Writes(sent) # {} /\ Writes(prev.sent) = {}

\* C4: for team and key with intent present and an existing resource, a change
\* is reported only if a field the task declares differs from the existing
\* resource's: an undeclared field never makes needs-update true.
C4_UndeclaredNeverUpdates ==
    (kind \in {"team", "key"} /\ Succeeded /\ params.state = "present" /\ Found) =>
        (result.changed => \E f \in DeclaredFields : Differs(f))

\* C5: the body of every update of a team or key names the resource the lookup
\* returned and holds, besides, only fields the task declares.
C5_UpdateBodyOnlyDeclared ==
    kind \in {"team", "key"} =>
        \A i \in OpsSent(sent, "update") :
            /\ IdKey(kind, "update") \in DOMAIN sent[i].data
            /\ HasId(kind, existing, sent[i].data[IdKey(kind, "update")])
            /\ DOMAIN sent[i].data \subseteq
                   {IdKey(kind, "update")} \cup {WireName(kind, f) : f \in DeclaredFields}

\* the task names its resource by secondary key only
BySecondaryKeyOnly ==
    CASE kind = "team" -> ~TruthyStr(params.team_id) /\ TruthyStr(params.name)
      [] kind = "key" -> ~TruthyStr(params.key_id) /\ TruthyStr(params.key_alias)
      [] OTHER -> TRUE

\* C6: two live invocations in a row of a task with intent present that names its
\* resource by secondary key, the first against an empty remote that stores what
\* it receives and the second finding by its lookup what the remote stored: the
\* first reports changed=true and sent one create, the second reports
\* changed=false, sends no write and reports the same resource.
C6_Idempotent ==
    (Succeeded /\ ~prev.none /\ ~prev.check_mode /\ ~check_mode
        /\ params.state = "present" /\ BySecondaryKeyOnly
        /\ prev.remote0 = <<>> /\ remote0 = prev.remote /\ Found) =>
        /\ prev.result.changed
        /\ Cardinality(OpsSent(prev.sent, "create")) = 1
        /\ ~result.changed
        /\ Writes(sent) = {}
        /\ (TruthyDict(result.resource) /\ TruthyDict(prev.result.resource)
               => result.resource = prev.result.resource)

\* C7: for endpoint and model, intent absent on an existing resource ends as a
\* successful result with changed=false and the advice to remove it from the
\* static config, and sends no delete.
C7_DeleteUnsupportedIsNoChange ==
    (kind \in {"endpoint", "model"} /\ Exited /\ params.state = "absent" /\ Found) =>
        /\ ~result.failed
        /\ ~result.changed
        /\ result.message = (IF kind = "endpoint" THEN delete_endpoint.msg
                             ELSE delete_model.msg)
        /\ OpsSent(sent, "delete") = {}

\* C8: for team and key, a live invocation with intent absent whose lookup found
\* a resource sends exactly one write, a delete that names the identifier of the
\* resource found, and reports changed=true unless the delete fails.
C8_DeleteNamesExisting ==
    (kind \in {"team", "key"} /\ Exited /\ ~check_mode /\ params.state = "absent" /\ Found) =>
        /\ Cardinality(Writes(sent)) = 1
        /\ \A i \in Writes(sent) :
              /\ sent[i].op = "delete"
              /\ HasId(kind, existing, NamedId(kind, "delete", sent[i].data))
        /\ (~result.failed => result.changed)

C8_Witness ==
    /\ kind = "key" /\ Succeeded /\ ~check_mode /\ params.state = "absent" /\ Found
    /\ result.changed /\ OpsSent(sent, "delete") # {}

\* C9: for endpoint and model, intent present on an existing resource whose
\* declared api_base or litellm_params differs from the remote's is an Update
\* with changed=true.
C9_EndpointModelUpdate ==
    (kind \in {"endpoint", "model"} /\ Succeeded /\ params.state = "present" /\ Found
        /\ (IF kind = "endpoint" THEN existing.api_base # params.api_base
            ELSE GetDict(existing, "litellm_params") # params.litellm_params)) =>
        result.changed /\ OpsSent(sent, "update") # {}

\* the resource of the remote the task's stable id names, and the one its
\* secondary key names
NamedById == Stored(kind, remote0, IF kind = "team" THEN params.team_id ELSE params.key_id)
NamedBySecondaryKey ==
    IF kind = "team"
    THEN get_team_by_name(Response(200, BareList(remote0)), params.name).val
    ELSE get_key_by_alias(Response(200, BareList(remote0)), params.key_alias).val

\* C10: for team and key, a task whose stable id and secondary key name two
\* different remote resources ends in a fatal error and sends no write.
C10_IdentityConflictIsError ==
    (kind \in {"team", "key"} /\ Exited
        /\ TruthyStr(IF kind = "team" THEN params.team_id ELSE params.key_id)
        /\ TruthyStr(IF kind = "team" THEN params.name ELSE params.key_alias)
        /\ NamedById # NoneDict /\ NamedBySecondaryKey # NoneDict
        /\ NamedById # NamedBySecondaryKey) =>
        result.failed /\ Writes(sent) = {}

----------------------------------------------------------------------------
(* C11 - C20 *)

\* the task gives neither the stable id nor the secondary key of its resource
NoIdentity ==
    CASE kind = "team" -> ~TruthyStr(params.team_id) /\ ~TruthyStr(params.name)
      [] kind = "key" -> ~TruthyStr(params.key_id) /\ ~TruthyStr(params.key_alias)
      [] kind = "endpoint" -> ~TruthyStr(params.endpoint_name)
      [] OTHER -> ~TruthyStr(params.model_name)

\* C11: an invocation with intent present whose task gives neither a stable id
\* nor a secondary key fails, and sends no request at all.
C11_NoIdentityIsConfigError ==
    (Exited /\ params.state = "present" /\ NoIdentity) =>
        result.failed /\ sent = <<>>

\* a listing answered with status 200 in one of the two shapes a listing has: a
\* bare list, or an object that holds the list under the container key
Recognised(k, req) ==
    req.json = "list" \/ (req.json = "dict" /\ Container(k) \in req.keys)

\* the lookup by secondary key was answered 200 with a body of neither shape
MalformedListing ==
    /\ sent # <<>> /\ sent[1].op = "list" /\ sent[1].status = 200
    /\ ~Recognised(kind, sent[1])

\* C12: an invocation whose lookup by secondary key is answered 200 with a body
\* that is neither a bare list nor the wrapped shape fails, and sends no create.
C12_MalformedListingIsError ==
    (Exited /\ MalformedListing) => result.failed /\ OpsSent(sent, "create") = {}

\* what the module's lookup by secondary key returns for an answer to its listing
LookupBySecondaryKey(k, resp, p) ==
    CASE k = "team" -> get_team_by_name(resp, p.name)
      [] k = "key" -> get_key_by_alias(resp, p.key_alias)
      [] k = "endpoint" -> get_endpoint(resp, p.endpoint_name)
      [] OTHER -> get_model(resp, p.model_name)

\* C13: a lookup by secondary key whose listing is answered in one of the two
\* shapes returns what it returns for the same list delivered in the wrapped
\* shape: bare and wrapped listings of the same list resolve to the same match.
C13_BareAndWrappedAgree ==
    (pc = "resolved" /\ sent # <<>> /\ sent[1].op = "list" /\ sent[1].status = 200
        /\ Recognised(kind, sent[1])) =>
        existing = LookupBySecondaryKey(kind,
                       Response(200, Wrapped(Container(kind), remote0)), params).val

\* a request that met a transport error or a status the module does not accept
\* (404 to a lookup by id is accepted: it means the resource is absent)
FailedRequest(req) ==
    /\ req.status \notin {200, 201}
    /\ ~(req.op = "get" /\ req.status = 404)

\* C14: a live invocation reports changed=true only if it sent a create, update
\* or delete that was answered with a success status; and one in which a request
\* met a transport error or an unexpected status ends failed, changed not true.
C14_ChangedOnlyAfterWrite ==
    (Exited /\ ~check_mode) =>
        /\ result.changed => \E i \in Writes(sent) : Is2xx(sent[i].status)
        /\ (\E i \in DOMAIN sent : FailedRequest(sent[i])) =>
               result.failed /\ ~result.changed

C14_Witness ==
    /\ Exited /\ ~check_mode /\ kind = "team" /\ result.failed
    /\ \E i \in Writes(sent) : FailedRequest(sent[i])

\* the answer a listing request of the invocation received, the remote holding rem
SeenListing(k, req, rem) ==
    Response(req.status,
             IF req.json = "list" THEN BareList(rem)
             ELSE IF req.json = "dict"
                  THEN (IF Container(k) \in req.keys THEN Wrapped(Container(k), rem)
                        ELSE OtherDict)
             ELSE IF req.json = "string" THEN Text ELSE Scalar)

\* the resource the remote holds after the served create or update req
RemoteValue(k, req, rem) ==
    IF req.op = "create" THEN rem[Len(rem)]
    ELSE Stored(k, rem, NamedId(k, req.op, req.data))

\* C15: after a live create or update that succeeded, the resource reported is
\* the remote's: for team and key the resource the remote holds and returned in
\* its answer to the write, for endpoint and model what the listing requested
\* after the write resolves to.
C15_ResourceFromRemote ==
    (Succeeded /\ ~check_mode /\ result.changed /\ params.state = "present") =>
        IF kind \in {"team", "key"}
        THEN \A i \in Writes(sent) :
                 result.resource = RemoteValue(kind, sent[i], remote)
        ELSE result.resource =
                 LookupBySecondaryKey(kind, SeenListing(kind, sent[Len(sent)], remote),
                                      params).val

\* a key was created: the resource reported carries the identifier the remote
\* gave it, which the body sent does not
C15_Witness ==
    /\ Succeeded /\ ~check_mode /\ result.changed /\ kind = "key"
    /\ \E i \in OpsSent(sent, "create") :
          /\ result.resource # sent[i].data
          /\ result.resource = remote[Len(remote)]
          /\ "token" \in DOMAIN result.resource

\* C16: for team and key, a check-mode invocation whose lookup found a resource
\* reports that resource (for a planned update or delete as for no change); the
\* resource reported is empty only when a create is planned.
C16_DryRunReportsExisting ==
    (kind \in {"team", "key"} /\ Succeeded /\ check_mode) =>
        IF Found THEN result.resource = existing
        ELSE result.resource = EmptyDict

\* needs-update as the module computes it with the models argument left out: the
\* other fields it compares are equal when this is false
NeedsUpdateBesidesModels ==
    IF kind = "team"
    THEN team_needs_update(existing, params.name, params.metadata, params.max_budget,
                           NoneList)
    ELSE key_needs_update(existing, [params EXCEPT !.models = NoneList])

\* the models of the existing resource and the models the task declares, as sets
SameModels == ToSet(GetListOr(existing, "models", <<>>)) = ToSet(params.models)

C18_NoRetries ==
    /\ Cardinality(Writes(sent)) <= 1
    /\ \A i \in DOMAIN sent : FailedRequest(sent[i]) => i = Len(sent) /\ Exited

\* the lookup was served and the write then failed: the invocation has ended
C18_Witness ==
    /\ Exited /\ result.failed /\ Len(sent) = 2
    /\ sent[1].op = "list" /\ ~FailedRequest(sent[1])
    /\ sent[2].op \in WriteOps /\ FailedRequest(sent[2])

\* the stable id the task gives
StableId == IF kind = "team" THEN params.team_id ELSE params.key_id

\* the invocation looked its resource up by stable id
LookedUpById == sent # <<>> /\ sent[1].op = "get"

\* C19: for team and key, a lookup by stable id answered 404 resolves to absent
\* (intent present then leads to a create, intent absent to no change, and the
\* lookup does not fail the invocation); answered 200 it resolves to the resource
\* returned; answered otherwise the invocation fails and sends no write.
C19_LookupById ==
    (kind \in {"team", "key"} /\ LookedUpById) =>
        CASE sent[1].status = 404 ->
                 /\ ~Found
                 /\ pc = "resolved" => ~result.failed
                 /\ Exited =>
                        IF params.state = "absent"
                        THEN ~result.failed /\ ~result.changed /\ Writes(sent) = {}
                        ELSE IF check_mode
                        THEN ~result.failed /\ result.changed /\ Writes(sent) = {}
                        ELSE /\ Cardinality(OpsSent(sent, "create")) = 1
                             /\ Writes(sent) = OpsSent(sent, "create")
                             /\ ~result.failed => result.changed
          [] sent[1].status = 200 ->
                 /\ Found
                 /\ existing = Stored(kind, remote0, StableId)
          [] OTHER ->
                 /\ Exited /\ result.failed /\ ~result.changed
                 /\ Writes(sent) = {} /\ Len(sent) = 1

\* a key looked up by id was answered 404 and has then been created
C19_Witness ==
    /\ kind = "key" /\ LookedUpById /\ sent[1].status = 404
    /\ Succeeded /\ ~check_mode /\ params.state = "present"
    /\ result.changed /\ OpsSent(sent, "create") # {}

\* C20: the desired state the caller supplied is not modified by the invocation:
\* module.params holds at every step the values it held at the start.
C20_DesiredStateReadOnly == params = ParamsOf(kind, args)

----------------------------------------------------------------------------
(* C21 - C25 *)

LookupOps == {"get", "list"}

\* C21: every create, update or delete of an invocation is preceded, in that
\* invocation, by a lookup request that was answered and accepted.
C21_LookupBeforeWrite ==
    \A i \in Writes(sent) :
        \E j \in 1..(i - 1) : sent[j].op \in LookupOps /\ ~FailedRequest(sent[j])

\* the secondary key the task gives, and the positions of the entries of the
\* remote's listing whose alias field or name field equals it
SecondaryKey == IF kind = "team" THEN params.name ELSE params.key_alias
Matches ==
    {i \in DOMAIN remote0 :
        IF kind = "team"
        THEN GetStr(remote0[i], "team_alias") = SecondaryKey
             \/ GetStr(remote0[i], "team_name") = SecondaryKey
        ELSE GetStr(remote0[i], "key_alias") = SecondaryKey
             \/ GetStr(remote0[i], "key_name") = SecondaryKey}

\* the lookup by secondary key was answered 200 with the listing in one of its shapes
ResolvedByListing ==
    /\ pc = "resolved" /\ sent # <<>> /\ sent[1].op = "list"
    /\ sent[1].status = 200 /\ Recognised(kind, sent[1])

\* C22: for team and key, the lookup by secondary key returns the first entry in
\* listing order whose alias or name equals the key; further matching entries are
\* ignored and do not make the lookup fail.
C22_FirstMatchWins ==
    (kind \in {"team", "key"} /\ ResolvedByListing) =>
        /\ ~result.failed
        /\ IF Matches = {} THEN ~Found
           ELSE existing = remote0[CHOOSE i \in Matches : \A j \in Matches : i <= j]

\* two different keys of the listing carry the alias: the first one is returned
C22_Witness ==
    /\ kind = "key" /\ ResolvedByListing
    /\ Matches = {1, 2} /\ remote0[1] # remote0[2]
    /\ existing = remote0[1]

\* C23: an invocation that ends successfully with changed=false has sent no
\* create, update or delete, and the remote is as the invocation found it.
C23_UnchangedMeansNoWrite ==
    (Succeeded /\ ~result.changed) => Writes(sent) = {} /\ remote = remote0

\* an endpoint that exists already: no change is reported and nothing was written
C23_Witness ==
    /\ kind = "endpoint" /\ Succeeded /\ ~result.changed
    /\ params.state = "present" /\ Found
    /\ Writes(sent) = {} /\ remote = remote0

\* C24: an invocation in which a create, update or delete was answered with a
\* success status ends successfully with changed=true; an invocation that ends
\* failed has applied no write to the remote.
C24_FailedMeansNoWriteApplied ==
    Exited =>
        /\ (\E i \in Writes(sent) : Is2xx(sent[i].status)) =>
               ~result.failed /\ result.changed
        /\ result.failed => remote = remote0

\* the marker create_endpoint puts in the info map of what it creates
Marked(info) == GetStr(info, "endpoint_type") = "managed_endpoint"

\* C25: every create of an endpoint carries the model identifier
\* <provider>/endpoint-<endpoint_name> and the marker in its info map, and the
\* lookup takes a remote entry for the existing endpoint only if it carries the
\* marker.
C25_EndpointMarker ==
    kind = "endpoint" =>
        /\ \A i \in OpsSent(sent, "create") :
              /\ sent[i].data.litellm_params.model =
                     <<params.provider, "/", "endpoint-", params.endpoint_name>>
              /\ Marked(sent[i].data.model_info)
        /\ (pc = "resolved" /\ Found) => Marked(existing.metadata)

====
